---- MODULE Spec2Model ----
(***************************************************************************)
(* A model of the inference-batching wrapper (src/neural/wrapper.cc) and   *)
(* of the "instamove" searches (policy head / value head).                 *)
(*                                                                         *)
(* The module holds four state machines over disjoint groups of variables: *)
(*   Spec          - one NetworkAsBackendComputation: concurrent AddInput  *)
(*                   callers and a thread calling ComputeBlocking;         *)
(*   SearchSpec    - one InstamoveSearch object: StartSearch, StopSearch,  *)
(*                   AbortSearch, WaitSearch, SetPosition on threads;      *)
(*   BackendSpec   - one NetworkAsBackend: construction and                *)
(*                   UpdateConfiguration;                                  *)
(*   ValueHeadSpec - ValueHeadSearch::GetBestMove, statement by statement. *)
(***************************************************************************)
EXTENDS Integers, Sequences, FiniteSets, TLC

\* ------------------------------------------------------------------ bounds
\* Number of distinct positions a caller may enqueue.
NumPositions == 2
\* Number of AddInput calls made on the one Computation.
MaxAddInputs == 3
\* attrs_.maximum_batch_size is 1024 (wrapper.cc:63); the model scales the
\* capacity down to MaxBatchSize so that a full entry store is reachable.
MaxBatchSize == 2
\* Number of ComputeBlocking calls made on the one Computation.
MaxComputes == 2

\* Number of StartSearch calls made on the one search object.
MaxSearches == 2
\* Number of legal moves of the position the value-head search is given.
MaxMoves == 3
\* The approximate exponential is kept in units of 1 / 2^UnderflowAt and is
\* zero for an argument below -UnderflowAt.
UnderflowAt == 8

Workers == {"w1", "w2"}
Positions == 1..NumPositions
\* The threads that call StopSearch; "start" is the thread that calls
\* SetPosition and StartSearch.
StopThreads == {"s1", "s2"}
Responders == StopThreads \cup {"start"}

VARIABLES
  \* --- NetworkAsBackendComputation (wrapper.cc:99-166)
  capacity_,      \* AtomicVector<Entry>: capacity fixed at construction
  size_,          \* AtomicVector<Entry>: the atomic write cursor
  entries_,       \* AtomicVector<Entry>: storage, index 0..capacity_-1
  wpc,            \* per AddInput caller: position in AddInput
  wloc,           \* per AddInput caller: pos, result, transform, idx
  slots,          \* the callers' result slots, one set per AddInput call
  cpc,            \* the ComputeBlocking caller: position in ComputeBlocking
  cit,            \* ComputeBlocking: loop index (both loops)
  cend,           \* ComputeBlocking: end() of the range-for, read once
  netInputs,      \* NetworkComputation: inputs submitted so far
  netOutputs,     \* NetworkComputation: outputs of its last ComputeBlocking
  netComputes,    \* NetworkComputation: number of ComputeBlocking calls
  computeCalls,   \* number of ComputeBlocking calls on the Computation
  protocol,       \* "ok" until a call breaks the one-shot lifecycle
  aborted         \* the process died on a fatal invariant violation

compVars == <<capacity_, size_, entries_, wpc, wloc, slots, cpc, cit, cend,
              netInputs, netOutputs, netComputes, computeCalls,
              protocol, aborted>>

VARIABLES
  \* --- InstamoveSearch (part_000:42-87)
  responded_bestmove_,  \* std::atomic<bool>
  bestmove_,            \* Move
  game_state_,          \* GameState: the position SetPosition stored
  spc,                  \* the StartSearch caller: position in StartSearch
  sgo,                  \* the GoParams of the StartSearch in progress / last
  rpc,                  \* per thread: inside RespondBestMove past the guard?
  wtpc,                 \* the WaitSearch caller: position in WaitSearch
  reports,              \* per search: number of OutputBestMove calls
  lastOut,              \* the BestMoveInfo OutputBestMove received last
  epoch,                \* number of StartSearch calls: the search in progress
  flags,                \* what happened to the search in progress
  strategy,             \* the class of the search object
  thinking,             \* per search: number of OutputThinkingInfo calls
  lastInfo              \* the ThinkingInfo OutputThinkingInfo received last

searchVars == <<responded_bestmove_, bestmove_, game_state_, spc, sgo, rpc,
                wtpc, reports, lastOut, epoch, flags, strategy, thinking,
                lastInfo>>

VARIABLES
  \* --- NetworkAsBackend (wrapper.cc:48-97)
  network_,                     \* std::unique_ptr<Network>: which instance
  attrs_,                       \* BackendAttributes
  softmax_policy_temperature_,  \* float, kept as a fraction num/den
  fill_empty_history_,          \* FillEmptyHistory
  backend_opts_,                \* const std::string
  weights_path_,                \* const std::string
  bpc,                          \* "constructing", "ready" or "aborted"
  ctorOptions,                  \* the OptionsDict given to the constructor
  lastUpdate                    \* the last UpdateConfiguration call and result

backendVars == <<network_, attrs_, softmax_policy_temperature_,
                 fill_empty_history_, backend_opts_, weights_path_, bpc,
                 ctorOptions, lastUpdate>>

VARIABLES
  \* --- ValueHeadSearch::GetBestMove (part_000:124-196)
  children,      \* per legal move: the game result of the position it leads
                 \* to and the value the network gives that position
  history,       \* PositionHistory history: the moves appended to the
                 \* positions of the game state
  results,       \* std::vector<Score> results
  batch,         \* the inputs added to the one BackendComputation
  vpc,           \* position in GetBestMove
  vi,            \* the loop index i
  vcomputes,     \* number of ComputeBlocking calls
  best_idx,      \* const size_t best_idx
  infos,         \* what OutputThinkingInfo received
  best_move      \* the move GetBestMove returns

vhVars == <<children, history, results, batch, vpc, vi, vcomputes, best_idx,
            infos, best_move>>

VARIABLES
  \* --- PolicyHeadSearch::GetBestMove (part_000:93-118)
  net,             \* what the network returns for the current position:
                   \* q, d and one policy probability per legal move
  evaluated,       \* the EvalPositions given to backend_->EvaluateBatch
  res,             \* std::vector<EvalResult> res
  ppc,             \* position in GetBestMove
  best_move_idx,   \* const size_t best_move_idx
  policy_infos,    \* what OutputThinkingInfo received
  policy_best_move \* the move GetBestMove returns

phVars == <<net, evaluated, res, ppc, best_move_idx, policy_infos,
            policy_best_move>>

VARIABLES
  \* --- Score::operator< (part_000:132-147) applied to three Scores
  scores,     \* the three Scores
  compared    \* compared[i][j]: what scores[i] < scores[j] returned

scoreVars == <<scores, compared>>

VARIABLES
  \* --- NetworkAsBackendComputation::SoftmaxPolicy (wrapper.cc:133-153)
  raw,          \* computation->GetPVal(idx, MoveToNNIndex(move, transform))
                \* for each legal move of the entry, in order
  temperature,  \* backend_->softmax_policy_temperature_
  dst,          \* std::span<float> dst, the caller's policy slot
  max_p,        \* const float max_p
  total,        \* float total, in units of 1 / 2^UnderflowAt
  smpc          \* position in SoftmaxPolicy

softmaxVars == <<raw, temperature, dst, max_p, total, smpc>>

VARIABLES
  \* --- NetworkAsBackendFactory::Create (wrapper.cc:179-193)
  create_input,     \* the options given to Create and what its collaborators
                    \* will do with them
  network_options,  \* OptionsDict network_options: the declared sub-options
                    \* and those read so far
  weights,          \* std::optional<WeightsFile> weights
  network,          \* std::unique_ptr<Network> network
  create_calls,     \* the collaborators called so far, in order
  create_result,    \* what Create returned or threw
  fpc               \* position in Create

factoryVars == <<create_input, network_options, weights, network,
                 create_calls, create_result, fpc>>

vars == <<compVars, searchVars, backendVars, vhVars, phVars, scoreVars,
          softmaxVars, factoryVars>>

\* What the actions of one object leave alone: the other objects.
exceptComp == <<searchVars, backendVars, vhVars, phVars, scoreVars,
  softmaxVars, factoryVars>>
exceptSearch == <<compVars, backendVars, vhVars, phVars, scoreVars,
  softmaxVars, factoryVars>>
exceptBackend == <<compVars, searchVars, vhVars, phVars, scoreVars,
  softmaxVars, factoryVars>>
exceptValueHead == <<compVars, searchVars, backendVars, phVars, scoreVars,
  softmaxVars, factoryVars>>
exceptPolicyHead == <<compVars, searchVars, backendVars, vhVars, scoreVars,
  softmaxVars, factoryVars>>
exceptScore == <<compVars, searchVars, backendVars, vhVars, phVars,
  softmaxVars, factoryVars>>
exceptSoftmax == <<compVars, searchVars, backendVars, vhVars, phVars,
  scoreVars, factoryVars>>
exceptFactory == <<compVars, searchVars, backendVars, vhVars, phVars,
  scoreVars, softmaxVars>>

\* ----------------------------------------------------------- collaborators
\* InputPlanes: the planes encode one position; std::move leaves them empty;
\* planes read from storage nobody constructed are indeterminate.
Planes(p) == [kind |-> "planes", pos |-> p]
Moved == [kind |-> "moved", pos |-> 0]
GarbagePlanes == [kind |-> "garbage", pos |-> 0]

\* Position p has p legal moves, numbered in generation order.
LegalMovesOf(p) == [i \in 1..p |-> i]

\* A value in a result slot: which output (f) of the network, computed from
\* which planes, and for the policy the legal moves and the transform used to
\* index it.
Val(f, planes, moves, t) ==
  [f |-> f, kind |-> planes.kind, pos |-> planes.pos, moves |-> moves, t |-> t]
Unset == [f |-> "unset", kind |-> "none", pos |-> 0, moves |-> <<>>, t |-> 0]
GarbageVal == [f |-> "garbage", kind |-> "garbage", pos |-> 0, moves |-> <<>>,
               t |-> 0]

Fields == {"q", "d", "m", "p"}
\* The outputs a caller may request: value and draw probability only (the
\* value-head search, which passes no legal moves), or all four.
ResultKinds == {{"q", "d"}, {"q", "d", "m", "p"}}
NullResult == [slot |-> 0, want |-> {}]

\* Storage that was claimed but not constructed yet.
Raw == [constructed |-> FALSE, input |-> GarbagePlanes, legal_moves |-> <<>>,
        result |-> NullResult, transform |-> 0]

\* EncodePositionForNN: the planes of the position and, through the output
\* parameter, the symmetry transform the encoder chose for it.
EncodePositionForNN(p) == [planes |-> Planes(p), transform |-> p - 1]

\* NetworkComputation::GetQVal/GetDVal/GetMVal(i): output f of input i; an
\* index the network computed no output for yields an indeterminate value.
NetVal(f, i) ==
  IF i < Len(netOutputs) THEN Val(f, netOutputs[i + 1], <<>>, 0) ELSE GarbageVal

\* NetworkComputation::GetPVal(i, MoveToNNIndex(move, transform)) for every
\* legal move of the entry, as SoftmaxPolicy reads it.
NetPolicy(i, moves, t) ==
  IF i < Len(netOutputs) THEN Val("p", netOutputs[i + 1], moves, t) ELSE GarbageVal

\* What the slots of a call must hold once the batch is computed.
Expected(call) ==
  [f \in Fields |->
     IF f \notin call.want THEN Unset
     ELSE IF f = "p"
       THEN Val("p", Planes(call.pos), call.legal_moves,
                EncodePositionForNN(call.pos).transform)
       ELSE Val(f, Planes(call.pos), <<>>, 0)]

\* ------------------------------------------------------------ constructor
\* entries_(backend_->attrs_.maximum_batch_size)
EntriesCapacity_TooLarge == MaxBatchSize + 1
EntriesCapacity == MaxBatchSize

CompInit ==
  /\ capacity_ = EntriesCapacity
  /\ size_ = 0
  /\ entries_ = [i \in 0..(EntriesCapacity - 1) |-> Raw]
  /\ wpc = [w \in Workers |-> "idle"]
  /\ wloc = [w \in Workers |-> [entry |-> Raw, transform |-> 0, idx |-> 0]]
  /\ slots = <<>>
  /\ cpc = "idle"
  /\ cit = 0
  /\ cend = 0
  /\ netInputs = <<>>
  /\ netOutputs = <<>>
  /\ netComputes = 0
  /\ computeCalls = 0
  /\ protocol = "ok"
  /\ aborted = FALSE

\* ---------------------------------------------------------------- AddInput
\* A caller enters AddInput(pos, result): the arguments of emplace_back are
\* evaluated (the position is encoded, the transform comes back through the
\* output parameter, the legal moves are copied, .transform = 0).
AddInputEncode(w) ==
  /\ ~aborted
  /\ wpc[w] = "idle"
  /\ cpc \in {"idle", "done"}
  /\ Len(slots) < MaxAddInputs
  /\ \E p \in Positions, want \in ResultKinds :
       LET moves == IF "p" \in want THEN LegalMovesOf(p) ELSE <<>>
           call == Len(slots) + 1
           enc == EncodePositionForNN(p)
       IN /\ slots' = Append(slots,
                 [pos |-> p, want |-> want, legal_moves |-> moves,
                  late |-> (computeCalls > 0),
                  mem |-> [f \in Fields |-> Unset], writes |-> 0])
          /\ wloc' = [wloc EXCEPT ![w] =
                 [entry |-> [constructed |-> TRUE, input |-> enc.planes,
                             legal_moves |-> moves,
                             result |-> [slot |-> call, want |-> want],
                             transform |-> 0],
                  transform |-> enc.transform, idx |-> 0]]
  /\ wpc' = [wpc EXCEPT ![w] = "emplace"]
  /\ protocol' = IF computeCalls > 0 THEN "violated" ELSE protocol
  /\ UNCHANGED <<capacity_, size_, entries_, cpc, cit, cend, netInputs,
                 netOutputs, netComputes, computeCalls, aborted>>
  /\ UNCHANGED exceptComp

\* AtomicVector::emplace_back, first half: the write cursor is fetched and
\* incremented to claim an index; an append beyond the capacity is fatal.
EmplaceBackClaim(w) ==
  /\ ~aborted
  /\ wpc[w] = "emplace"
  /\ IF size_ < capacity_
       THEN /\ wloc' = [wloc EXCEPT ![w].idx = size_]
            /\ size_' = size_ + 1
            /\ wpc' = [wpc EXCEPT ![w] = "construct"]
            /\ UNCHANGED aborted
       ELSE /\ aborted' = TRUE
            /\ UNCHANGED <<wloc, size_, wpc>>
  /\ UNCHANGED <<capacity_, entries_, slots, cpc, cit, cend, netInputs,
                 netOutputs, netComputes, computeCalls, protocol>>
  /\ UNCHANGED exceptComp

\* AtomicVector::emplace_back, second half: the entry is constructed in place
\* at the claimed index and the index is returned.
EmplaceBackConstruct(w) ==
  /\ ~aborted
  /\ wpc[w] = "construct"
  /\ entries_' = [entries_ EXCEPT ![wloc[w].idx] = wloc[w].entry]
  /\ wpc' = [wpc EXCEPT ![w] = "transform"]
  /\ UNCHANGED <<capacity_, size_, wloc, slots, cpc, cit, cend, netInputs,
                 netOutputs, netComputes, computeCalls, protocol,
                 aborted>>
  /\ UNCHANGED exceptComp

\* entries_[idx].transform = transform; return ENQUEUED_FOR_EVAL;
StoredTransform_Zero(w) == 0
StoredTransform(w) == wloc[w].transform

AddInputStoreTransform(w) ==
  /\ ~aborted
  /\ wpc[w] = "transform"
  /\ entries_' = [entries_ EXCEPT ![wloc[w].idx].transform = StoredTransform(w)]
  /\ wpc' = [wpc EXCEPT ![w] = "idle"]
  /\ wloc' = [wloc EXCEPT ![w] = [entry |-> Raw, transform |-> 0, idx |-> 0]]
  /\ UNCHANGED <<capacity_, size_, slots, cpc, cit, cend, netInputs,
                 netOutputs, netComputes, computeCalls, protocol,
                 aborted>>
  /\ UNCHANGED exceptComp

\* UsedBatchSize() { return entries_.size(); }
UsedBatchSize == size_

\* --------------------------------------------------------- ComputeBlocking
\* ComputeBlocking is entered; the range-for reads begin() and end() once.
ComputeBlockingEnter ==
  /\ ~aborted
  /\ cpc \in {"idle", "done"}
  /\ \A w \in Workers : wpc[w] = "idle"
  /\ computeCalls < MaxComputes
  /\ cpc' = "submit"
  /\ cit' = 0
  /\ cend' = size_
  /\ computeCalls' = computeCalls + 1
  /\ protocol' = IF computeCalls > 0 THEN "violated" ELSE protocol
  /\ UNCHANGED <<capacity_, size_, entries_, wpc, wloc, slots, netInputs,
                 netOutputs, netComputes, aborted>>
  /\ UNCHANGED exceptComp

\* for (auto& entry : entries_) computation_->AddInput(std::move(entry.input));
ComputeBlockingSubmit ==
  /\ ~aborted
  /\ cpc = "submit"
  /\ cit < cend
  /\ netInputs' = Append(netInputs, entries_[cit].input)
  /\ entries_' = [entries_ EXCEPT ![cit].input = Moved]
  /\ cit' = cit + 1
  /\ UNCHANGED <<capacity_, size_, wpc, wloc, slots, cpc, cend, netOutputs,
                 netComputes, computeCalls, protocol, aborted>>
  /\ UNCHANGED exceptComp

\* The range-for has reached end().
SubmitLoopOver_AtOnce == TRUE
SubmitLoopOver == cit >= cend

\* computation_->ComputeBlocking(): the network computes one output per
\* input it holds.
ComputeBlockingNetwork ==
  /\ ~aborted
  /\ cpc = "submit"
  /\ SubmitLoopOver
  /\ netOutputs' = netInputs
  /\ netComputes' = netComputes + 1
  /\ cpc' = "distribute"
  /\ cit' = 0
  /\ UNCHANGED <<capacity_, size_, entries_, wpc, wloc, slots, cend,
                 netInputs, computeCalls, protocol, aborted>>
  /\ UNCHANGED exceptComp

\* The index whose network outputs entry i receives: GetQVal(i), GetDVal(i),
\* GetMVal(i), SoftmaxPolicy(result.p, computation_.get(), i).
OutputIndex_First(i) == 0
OutputIndex(i) == i

\* The values one iteration of the second loop writes through result.
Written(e, i) ==
  [f \in Fields |->
     IF f = "p" THEN NetPolicy(OutputIndex(i), e.legal_moves, e.transform)
     ELSE NetVal(f, OutputIndex(i))]

\* The slots after the writes through a result pointer: only the requested
\* outputs (the non-null pointers, the non-empty span) are written.
WriteSlots(result, vals) ==
  IF result.want = {} THEN slots
  ELSE [slots EXCEPT ![result.slot] =
          [@ EXCEPT !.mem = [f \in Fields |->
                               IF f \in result.want THEN vals[f] ELSE @[f]],
                    !.writes = @ + 1]]

\* for (i = 0; i < entries_.size(); ++i) { ... } : one iteration.
ComputeBlockingDistribute ==
  /\ ~aborted
  /\ cpc = "distribute"
  /\ cit < size_
  /\ slots' = WriteSlots(entries_[cit].result, Written(entries_[cit], cit))
  /\ cit' = cit + 1
  /\ UNCHANGED <<capacity_, size_, entries_, wpc, wloc, cpc, cend, netInputs,
                 netOutputs, netComputes, computeCalls, protocol, aborted>>
  /\ UNCHANGED exceptComp

\* The second loop ends and ComputeBlocking returns.
ComputeBlockingReturn ==
  /\ ~aborted
  /\ cpc = "distribute"
  /\ cit >= size_
  /\ cpc' = "done"
  /\ cit' = 0
  /\ cend' = 0
  /\ UNCHANGED <<capacity_, size_, entries_, wpc, wloc, slots, netInputs,
                 netOutputs, netComputes, computeCalls, protocol,
                 aborted>>
  /\ UNCHANGED exceptComp

Next ==
  \/ \E w \in Workers : AddInputEncode(w)
  \/ \E w \in Workers : EmplaceBackClaim(w)
  \/ \E w \in Workers : EmplaceBackConstruct(w)
  \/ \E w \in Workers : AddInputStoreTransform(w)
  \/ ComputeBlockingEnter
  \/ ComputeBlockingSubmit
  \/ ComputeBlockingNetwork
  \/ ComputeBlockingDistribute
  \/ ComputeBlockingReturn

\* ------------------------------------------------- claims on the Computation
\* C1: when every AddInput call completed before the one ComputeBlocking
\* started, then once ComputeBlocking has returned every call's slot set was
\* written exactly once (as many written slot sets as AddInput calls), the
\* entry at index i was submitted to the network as input i, and each call's
\* slots hold the network outputs for the position that same call encoded.
C1_SlotsReceiveOwnOutputs ==
  (cpc = "done" /\ protocol = "ok") =>
    /\ Cardinality({k \in 1..Len(slots) : slots[k].writes > 0}) = Len(slots)
    /\ size_ = Len(slots)
    /\ Len(netInputs) = Len(slots)
    /\ \A i \in 0..(size_ - 1) :
         netInputs[i + 1] = Planes(slots[entries_[i].result.slot].pos)
    /\ \A k \in 1..Len(slots) :
         slots[k].writes = 1 /\ slots[k].mem = Expected(slots[k])

\* Two calls for different positions raced, the later call claimed index 0,
\* and ComputeBlocking has distributed the results.
C1_Witness ==
  /\ cpc = "done" /\ protocol = "ok" /\ Len(slots) = 2
  /\ slots[1].pos # slots[2].pos
  /\ entries_[0].result.slot = 2
  /\ slots[2].writes = 1

\* C3: the lifecycle is one-shot and enforced: an AddInput called after
\* ComputeBlocking appends no entry, and a second ComputeBlocking resubmits
\* no input, does not invoke the network again and rewrites no slot.
C3_OneShotEnforced ==
  /\ \A k \in 1..Len(slots) :
       slots[k].late => \A i \in DOMAIN entries_ : entries_[i].result.slot # k
  /\ Len(netInputs) <= size_
  /\ netComputes <= 1
  /\ \A k \in 1..Len(slots) : slots[k].writes <= 1

NetworkInvoked == netComputes' # netComputes
\* A result slot that existed was written in this step.
SlotWritten == \E k \in 1..Len(slots) : slots'[k] # slots[k]
\* A step of an AddInput call.
AddInputStep == \E w \in Workers : wpc'[w] # wpc[w]
\* The inputs the network holds are those of entries 0, 1, ... in that order.
SubmittedInIndexOrder ==
  \A i \in 0..(Len(netInputs) - 1) :
    /\ i < size_
    /\ netInputs[i + 1] = Planes(slots[entries_[i].result.slot].pos)

\* C17: in a ComputeBlocking call of a Computation used once, the network is
\* invoked only when the input of every entry has been submitted, in index
\* order; it is invoked once; a result slot is written only after that
\* invocation; and no step of AddInput invokes the network or writes a slot.
C17_SubmitComputeDistribute ==
  [][/\ AddInputStep => (~NetworkInvoked /\ ~SlotWritten)
     /\ (protocol' = "ok" /\ NetworkInvoked) =>
          /\ netComputes = 0 /\ netComputes' = 1
          /\ Len(netInputs) = size_
          /\ SubmittedInIndexOrder
          /\ \A k \in 1..Len(slots) : slots[k].writes = 0
     /\ (protocol' = "ok" /\ SlotWritten) =>
          /\ netComputes = 1 /\ netComputes' = 1
          /\ cpc = "distribute"
     /\ (protocol' = "ok" /\ cpc' = "done") => netComputes' = 1]_vars

\* Two entries were submitted, the network ran once and both slot sets were
\* then written.
C17_Witness ==
  /\ cpc = "done" /\ protocol = "ok" /\ size_ = 2
  /\ netComputes = 1 /\ Len(netInputs) = 2
  /\ slots[1].writes = 1 /\ slots[2].writes = 1
  /\ slots[1].want = {"q", "d"}

\* C18: every entry the store counts (index below UsedBatchSize) and holds
\* constructed carries the transform that the encode step of its own
\* AddInput call chose.
C18_TransformStoredBeforeVisible ==
  \A i \in 0..(UsedBatchSize - 1) :
    entries_[i].constructed =>
      entries_[i].transform =
        EncodePositionForNN(slots[entries_[i].result.slot].pos).transform

\* ==================================================== InstamoveSearch
\* A move: its from and to squares, 0..63, rank = square \div 8. The
\* default-constructed Move is the null move.
NullMove == [from |-> 0, to |-> 0]
FlipSquare(sq) == (7 - (sq \div 8)) * 8 + (sq % 8)
\* Move::Flip(): the move mirrored top to bottom.
Flip(m) == [from |-> FlipSquare(m.from), to |-> FlipSquare(m.to)]
is_null(m) == m = NullMove

\* The positions SetPosition may store: an identity and the side to move.
GameStates == [id : {1, 2}, black : BOOLEAN]
IsBlackToMove(gs) == gs.black
\* The GoParams fields StartSearch reads.
GoParams == [infinite : BOOLEAN, ponder : BOOLEAN]

\* GetBestMove(game_state_): the strategy's move for the position, always in
\* the side to move's own orientation (e2e4 for position 1, g1f3 for 2).
GetBestMove(gs) ==
  IF gs.id = 1 THEN [from |-> 12, to |-> 28] ELSE [from |-> 6, to |-> 21]

\* The threads inside RespondBestMove that took the guard during search s.
ClaimsOf(s) == {t \in Responders : rpc[t].at = "respond" /\ rpc[t].search = s}
\* flags.abort: how the first AbortSearch of the search in progress found it
\* ("none": no AbortSearch yet; "unclaimed": guard clear; "claimed": guard
\* taken, nothing reported yet; "reported": its best move already reported).
\* flags.raced: a StopSearch or AbortSearch ran while StartSearch was running.
\* flags.refused: a RespondBestMove call of this search found the guard taken.
NoFlags == [abort |-> "none", raced |-> FALSE, refused |-> FALSE]

\* A search object of one of the classes in `strategies`, as constructed.
SearchStart(strategies) ==
  /\ strategy \in strategies
  /\ thinking = [s \in 0..MaxSearches |-> 0]
  /\ lastInfo = [depth |-> 0, seldepth |-> 0, nodes |-> 0]
  /\ responded_bestmove_ = FALSE
  /\ bestmove_ = NullMove
  /\ game_state_ = [id |-> 1, black |-> FALSE]
  /\ spc = "idle"
  /\ sgo = [infinite |-> FALSE, ponder |-> FALSE]
  /\ rpc = [t \in Responders |-> [at |-> "idle", search |-> 0]]
  /\ wtpc = "idle"
  /\ reports = [s \in 0..MaxSearches |-> 0]
  /\ lastOut = [bestmove |-> NullMove, ponder |-> NullMove,
                computed |-> NullMove, black |-> FALSE]
  /\ epoch = 0
  /\ flags = NoFlags

SearchInit == SearchStart({"valuehead"})

\* void SetPosition(const GameState& game_state) { game_state_ = game_state; }
\* The thread that calls StartSearch calls it between two searches.
SetPosition(gs) ==
  /\ spc = "idle"
  /\ game_state_' = gs
  /\ UNCHANGED <<responded_bestmove_, bestmove_, spc, sgo, rpc, wtpc, reports,
                 lastOut, epoch, flags>>
  /\ UNCHANGED <<strategy, thinking, lastInfo>>
  /\ UNCHANGED exceptSearch

\* StartSearch, line 54: responded_bestmove_.store(false)
StartSearchArm(go) ==
  /\ spc = "idle"
  /\ epoch < MaxSearches
  /\ responded_bestmove_' = FALSE
  /\ sgo' = go
  /\ spc' = "armed"
  /\ epoch' = epoch + 1
  /\ flags' = NoFlags
  /\ UNCHANGED <<bestmove_, game_state_, rpc, wtpc, reports, lastOut>>
  /\ UNCHANGED <<strategy, thinking, lastInfo>>
  /\ UNCHANGED exceptSearch

\* The two classes derived from InstamoveSearch.
Strategies == {"policyhead", "valuehead"}
\* The number of legal moves of the position (20 in the starting position).
LegalMoveCount(gs) == IF gs.id = 1 THEN 20 ELSE 3
\* The depth, seldepth and nodes of the one ThinkingInfo GetBestMove passes
\* to OutputThinkingInfo: nodes = 1 in PolicyHeadSearch, lines 101-104, and
\* legal_moves.size() in ValueHeadSearch, lines 177-180.
ThinkingInfoRecord_OneNode(s, gs) == [depth |-> 1, seldepth |-> 1, nodes |-> 1]
ThinkingInfoRecord(s, gs) ==
  [depth |-> 1, seldepth |-> 1,
   nodes |-> IF s = "policyhead" THEN 1 ELSE LegalMoveCount(gs)]

\* StartSearch, line 55: bestmove_ = GetBestMove(game_state_); GetBestMove
\* calls OutputThinkingInfo once before it returns the move.
StartSearchCompute ==
  /\ spc = "armed"
  /\ bestmove_' = GetBestMove(game_state_)
  /\ thinking' = [thinking EXCEPT ![epoch] = @ + 1]
  /\ lastInfo' = ThinkingInfoRecord(strategy, game_state_)
  /\ spc' = "computed"
  /\ UNCHANGED <<responded_bestmove_, game_state_, sgo, rpc, wtpc, reports,
                 lastOut, epoch, flags, strategy>>
  /\ UNCHANGED exceptSearch

\* StartSearch, line 56: the condition under which it calls RespondBestMove.
StartResponds_IgnoresPonder(go) == ~go.infinite
StartResponds(go) == ~go.infinite /\ ~go.ponder

\* RespondBestMove, line 66: responded_bestmove_.exchange(true) returned true.
GuardTaken_Never == FALSE
GuardTaken == responded_bestmove_

\* StartSearch, line 56: either RespondBestMove is not called, or its
\* exchange finds the guard taken, and StartSearch returns; or the exchange
\* takes the guard.
StartSearchRespond ==
  /\ spc = "computed"
  /\ IF StartResponds(sgo) /\ ~GuardTaken
       THEN /\ responded_bestmove_' = TRUE
            /\ rpc' = [rpc EXCEPT !["start"] = [at |-> "respond", search |-> epoch]]
            /\ spc' = "respond"
            /\ UNCHANGED flags
       ELSE /\ responded_bestmove_' = (responded_bestmove_ \/ StartResponds(sgo))
            /\ spc' = "idle"
            /\ flags' = [flags EXCEPT !.refused = @ \/ StartResponds(sgo)]
            /\ UNCHANGED rpc
  /\ UNCHANGED <<bestmove_, game_state_, sgo, wtpc, reports, lastOut, epoch>>
  /\ UNCHANGED <<strategy, thinking, lastInfo>>
  /\ UNCHANGED exceptSearch

\* StopSearch() { RespondBestMove(); } up to the exchange of line 66.
StopSearchExchange(t) ==
  /\ t \in StopThreads
  /\ rpc[t].at = "idle"
  /\ responded_bestmove_' = TRUE
  /\ rpc' = IF GuardTaken THEN rpc
            ELSE [rpc EXCEPT ![t] = [at |-> "respond", search |-> epoch]]
  /\ flags' = [flags EXCEPT !.raced = @ \/ spc # "idle",
                            !.refused = @ \/ GuardTaken]
  /\ UNCHANGED <<bestmove_, game_state_, spc, sgo, wtpc, reports, lastOut,
                 epoch>>
  /\ UNCHANGED <<strategy, thinking, lastInfo>>
  /\ UNCHANGED exceptSearch

\* RespondBestMove, lines 69-73: which of the two moves is mirrored.
Mirrored_Always(info, black) ==
  [bestmove |-> Flip(info.bestmove), ponder |-> info.ponder]
Mirrored(info, black) ==
  IF black THEN [bestmove |-> Flip(info.bestmove), ponder |-> info.ponder]
  ELSE IF ~is_null(info.ponder)
    THEN [bestmove |-> info.bestmove, ponder |-> Flip(info.ponder)]
    ELSE info

\* RespondBestMove, lines 67-74, by the thread that took the guard:
\* BestMoveInfo info{bestmove_}; the mirroring; OutputBestMove(&info).
RespondOutput(t) ==
  /\ rpc[t].at = "respond"
  /\ LET info == [bestmove |-> bestmove_, ponder |-> NullMove]
         out == Mirrored(info, IsBlackToMove(game_state_))
     IN lastOut' = [bestmove |-> out.bestmove, ponder |-> out.ponder,
                    computed |-> bestmove_,
                    black |-> IsBlackToMove(game_state_)]
  /\ reports' = [reports EXCEPT ![rpc[t].search] = @ + 1]
  /\ rpc' = [rpc EXCEPT ![t] = [at |-> "idle", search |-> 0]]
  /\ spc' = IF t = "start" THEN "idle" ELSE spc
  /\ UNCHANGED <<responded_bestmove_, bestmove_, game_state_, sgo, wtpc, epoch,
                 flags>>
  /\ UNCHANGED <<strategy, thinking, lastInfo>>
  /\ UNCHANGED exceptSearch

\* AbortSearch() { responded_bestmove_.store(true); }
AbortStores_False == FALSE
AbortStores == TRUE

AbortSearch ==
  /\ responded_bestmove_' = AbortStores
  /\ flags' = [abort |-> IF flags.abort # "none" THEN flags.abort
                         ELSE IF ~responded_bestmove_ THEN "unclaimed"
                         ELSE IF reports[epoch] = 0 THEN "claimed"
                         ELSE "reported",
               raced |-> (flags.raced \/ spc # "idle"),
               refused |-> flags.refused]
  /\ UNCHANGED <<bestmove_, game_state_, spc, sgo, rpc, wtpc, reports, lastOut,
                 epoch>>
  /\ UNCHANGED <<strategy, thinking, lastInfo>>
  /\ UNCHANGED exceptSearch

\* WaitSearch is entered.
WaitSearchEnter ==
  /\ wtpc \in {"idle", "returned"}
  /\ wtpc' = "polling"
  /\ UNCHANGED <<responded_bestmove_, bestmove_, game_state_, spc, sgo, rpc,
                 reports, lastOut, epoch, flags>>
  /\ UNCHANGED <<strategy, thinking, lastInfo>>
  /\ UNCHANGED exceptSearch

\* WaitSearch, line 59: the condition that ends the polling loop.
WaitOver_Always == TRUE
WaitOver == responded_bestmove_

\* while (!responded_bestmove_.load()) sleep_for(10ms); a poll that finds the
\* guard clear sleeps and changes nothing; one that finds it set returns.
WaitSearchPoll ==
  /\ wtpc = "polling"
  /\ WaitOver
  /\ wtpc' = "returned"
  /\ UNCHANGED <<responded_bestmove_, bestmove_, game_state_, spc, sgo, rpc,
                 reports, lastOut, epoch, flags>>
  /\ UNCHANGED <<strategy, thinking, lastInfo>>
  /\ UNCHANGED exceptSearch

SearchNext ==
  \/ \E gs \in GameStates : SetPosition(gs)
  \/ \E go \in GoParams : StartSearchArm(go)
  \/ StartSearchCompute
  \/ StartSearchRespond
  \/ \E t \in StopThreads : StopSearchExchange(t)
  \/ \E t \in Responders : RespondOutput(t)
  \/ AbortSearch
  \/ WaitSearchEnter
  \/ WaitSearchPoll

\* The calls that start, stop and abort a search, without a waiting thread.
StartStopNext ==
  \/ \E gs \in GameStates : SetPosition(gs)
  \/ \E go \in GoParams : StartSearchArm(go)
  \/ StartSearchCompute
  \/ StartSearchRespond
  \/ \E t \in StopThreads : StopSearchExchange(t)
  \/ \E t \in Responders : RespondOutput(t)
  \/ AbortSearch

\* ------------------------------------------------ claims on InstamoveSearch
\* A go request that asks for the move at once.
Immediate(go) == ~go.infinite /\ ~go.ponder
\* The reports of search s: emitted, or claimed by a thread that took the
\* guard during s and is about to call OutputBestMove.
Reported(s) == reports[s] + Cardinality(ClaimsOf(s))

\* C2: OutputBestMove is invoked at most once per search (a report belongs
\* to the search during which its thread took the guard), and once a
\* StartSearch that is neither infinite nor ponder has returned, with no
\* AbortSearch in that search, exactly one report of the search was emitted
\* or is being emitted, whatever StopSearch calls raced with it.
C2_AtMostOneReport ==
  /\ \A s \in 0..MaxSearches : Reported(s) <= 1
  /\ (epoch >= 1 /\ spc = "idle" /\ Immediate(sgo) /\ flags.abort = "none")
       => Reported(epoch) = 1
  /\ (epoch >= 1 /\ spc = "idle" /\ Immediate(sgo) /\ flags.abort = "none"
      /\ ClaimsOf(epoch) = {}) => reports[epoch] = 1

\* A StopSearch ran while StartSearch was running, another call was turned
\* away by the guard, and the search was reported once.
C2_Witness ==
  /\ epoch >= 1 /\ spc = "idle" /\ Immediate(sgo) /\ flags.abort = "none"
  /\ flags.raced /\ flags.refused
  /\ reports[epoch] = 1 /\ ClaimsOf(epoch) = {}

\* C6 as stated: once AbortSearch was called for a search no OutputBestMove
\* had been emitted for, none is emitted for that search.
C6_AbortSuppressesUnreported ==
  (epoch >= 1 /\ flags.abort \in {"unclaimed", "claimed"}) => reports[epoch] = 0

\* C6 amended: once AbortSearch was called for a search whose guard nobody
\* had taken, no OutputBestMove is emitted or claimed for that search, until
\* the next StartSearch.
C6_AbortSuppressesUnclaimed ==
  flags.abort = "unclaimed" => Reported(epoch) = 0

\* An infinite search was aborted before any report, and a later
\* RespondBestMove call was turned away.
C6_Witness ==
  /\ epoch >= 1 /\ spc = "idle" /\ sgo.infinite
  /\ flags.abort = "unclaimed" /\ flags.refused /\ ~flags.raced
  /\ reports[epoch] = 0

\* The step in which StartSearch returns.
StartSearchReturns == spc # "idle" /\ spc' = "idle"

\* C7 as stated: when StartSearch returns, the best move of its search has
\* been reported if and only if the go request is neither infinite nor ponder.
C7_ReportedIffImmediate ==
  [][StartSearchReturns => ((reports'[epoch] > 0) <=> Immediate(sgo))]_vars

\* C7 amended: StartSearch itself calls OutputBestMove only for a go request
\* that is neither infinite nor ponder; when it returns from such a request
\* the guard is set and the search is reported, being reported by a racing
\* StopSearch, or aborted; and when no StopSearch or AbortSearch ran while it
\* was running, it returns with the move reported if and only if the request
\* is neither infinite nor ponder.
C7_ReportedIffImmediateUnraced ==
  [][/\ rpc["start"].at = "respond" => Immediate(sgo)
     /\ StartSearchReturns =>
          /\ Immediate(sgo) =>
               /\ responded_bestmove_'
               /\ (reports'[epoch] + Cardinality(ClaimsOf(epoch)') = 1
                   \/ flags.abort # "none")
          /\ ~Immediate(sgo) => lastOut' = lastOut
          /\ ~flags.raced => ((reports'[epoch] > 0) <=> Immediate(sgo))]_vars

\* Both cases were met without a race: an infinite search returned
\* unreported after an immediate one had returned reported.
C7_Witness ==
  /\ epoch = 2 /\ spc = "idle" /\ ~flags.raced /\ sgo.infinite
  /\ reports[1] = 1 /\ reports[2] = 0 /\ ~responded_bestmove_

\* The step in which WaitSearch returns.
WaitSearchReturns == wtpc = "polling" /\ wtpc' = "returned"

\* C8 as stated (its safety half): WaitSearch returns only when the search
\* in progress has been reported or aborted.
C8_ReturnsWhenReported ==
  [][(WaitSearchReturns /\ epoch >= 1)
       => (reports[epoch] > 0 \/ flags.abort # "none")]_vars

\* C8 amended: WaitSearch returns only when the guard is set, that is when
\* the search in progress has been reported, is being reported by the thread
\* that took the guard, or was aborted; the guard is set whenever a
\* StartSearch that is neither infinite nor ponder has returned; and a
\* polling WaitSearch that finds the guard set returns, unless a new
\* StartSearch clears the guard first.
C8_ReturnsWhenGuardSet ==
  /\ [][WaitSearchReturns =>
          /\ responded_bestmove_
          /\ (Reported(epoch) > 0 \/ flags.abort # "none")]_vars
  /\ []((epoch >= 1 /\ spc = "idle" /\ Immediate(sgo)) => responded_bestmove_)
  /\ ((wtpc = "polling" /\ responded_bestmove_)
        ~> (wtpc = "returned" \/ ~responded_bestmove_))

\* WaitSearch returned from an infinite search that a StopSearch reported.
C8_Witness ==
  /\ wtpc = "returned" /\ epoch >= 1 /\ sgo.infinite /\ spc = "idle"
  /\ flags.abort = "none" /\ reports[epoch] = 1

\* C9: the best move passed to OutputBestMove is the mirror of bestmove_ when
\* black is to move in game_state_ and bestmove_ itself otherwise; the ponder
\* move, which RespondBestMove always leaves null, is never mirrored.
C9_MirrorsForBlack ==
  (\E s \in 0..MaxSearches : reports[s] > 0) =>
    /\ lastOut.black =>
         /\ lastOut.bestmove.from \div 8 = 7 - (lastOut.computed.from \div 8)
         /\ lastOut.bestmove.from % 8 = lastOut.computed.from % 8
         /\ lastOut.bestmove.to \div 8 = 7 - (lastOut.computed.to \div 8)
         /\ lastOut.bestmove.to % 8 = lastOut.computed.to % 8
    /\ ~lastOut.black => lastOut.bestmove = lastOut.computed
    /\ lastOut.ponder = NullMove

\* e2e4 was computed for a position with black to move and e7e5 reported.
C9_Witness ==
  /\ lastOut.black
  /\ lastOut.computed = [from |-> 12, to |-> 28]
  /\ lastOut.bestmove = [from |-> 52, to |-> 36]

\* ===================================================== NetworkAsBackend
Fraction(n, d) == [num |-> n, den |-> d]
\* 1.0f / x
Reciprocal(x) == Fraction(x.den, x.num)

BackendOptionStrings == {"", "threads=2"}
WeightsPaths == {"a.pb.gz", "b.pb.gz"}
SoftmaxTemps == {Fraction(1, 1), Fraction(2, 1), Fraction(1, 2)}
HistoryFills == {"fen_only", "always", "no", "sometimes"}
\* The OptionsDict entries the Backend reads.
Options == [backend_opts : BackendOptionStrings, weights : WeightsPaths,
            temp : SoftmaxTemps, fill : HistoryFills]
NoUpdate == [options |-> [backend_opts |-> "", weights |-> "a.pb.gz",
                          temp |-> Fraction(1, 1), fill |-> "no"],
             result |-> "none", network_before |-> "none",
             previous |-> "none"]

\* EncodeHistoryFill: the values it can return; assert(history_fill == "no")
\* ends the process when assertions are compiled in and the value is none of
\* the three, and is no statement at all under NDEBUG.
EncodeHistoryFill(history_fill) ==
  IF history_fill = "fen_only" THEN {"FEN_ONLY"}
  ELSE IF history_fill = "always" THEN {"ALWAYS"}
  ELSE IF history_fill = "no" THEN {"NO"}
  ELSE {"assert-failed", "NO"}

Networks == {"net1", "net2"}
DefaultOptions == [backend_opts |-> "", weights |-> "a.pb.gz",
                   temp |-> Fraction(1, 1), fill |-> "no"]

\* The member initialisers of the constructor, lines 51-55, for a constructor
\* given one of `options` and one of `networks`.
BackendStart(options, networks) ==
  /\ ctorOptions \in options
  /\ network_ \in networks
  /\ backend_opts_ = ctorOptions.backend_opts
  /\ weights_path_ = ctorOptions.weights
  /\ attrs_ = [maximum_batch_size |-> 0]
  /\ softmax_policy_temperature_ = Fraction(0, 1)
  /\ fill_empty_history_ = "uninitialized"
  /\ bpc = "constructing"
  /\ lastUpdate = NoUpdate

BackendInit == BackendStart(Options, Networks)

\* A comparison of the weights path alone.
NeedsRestart_WeightsOnly(options) == weights_path_ # options.weights
\* A comparison of the backend options string alone.
NeedsRestart_OptionsOnly(options) == backend_opts_ # options.backend_opts
\* UpdateConfiguration, lines 72-79: the two comparisons with the values
\* captured at construction.
NeedsRestart(options) ==
  \/ backend_opts_ # options.backend_opts
  \/ weights_path_ # options.weights

\* UpdateConfiguration(options): what it does to the Backend, for the fill
\* policy `fill` that EncodeHistoryFill returned.
ApplyConfiguration(options, fill) ==
  IF NeedsRestart(options)
    THEN /\ lastUpdate' = [options |-> options, result |-> "NEED_RESTART",
                           network_before |-> network_,
                           previous |-> lastUpdate.result]
         /\ UNCHANGED <<softmax_policy_temperature_, fill_empty_history_, bpc>>
    ELSE IF fill = "assert-failed"
      THEN /\ bpc' = "aborted"
           /\ softmax_policy_temperature_' = Reciprocal(options.temp)
           /\ UNCHANGED <<fill_empty_history_, lastUpdate>>
      ELSE /\ softmax_policy_temperature_' = Reciprocal(options.temp)
           /\ fill_empty_history_' = fill
           /\ lastUpdate' = [options |-> options, result |-> "UPDATE_OK",
                             network_before |-> network_,
                             previous |-> lastUpdate.result]
           /\ UNCHANGED bpc

\* The constructor body: UpdateConfiguration(options), then the attributes.
NetworkAsBackendCtor ==
  /\ bpc = "constructing"
  /\ \E fill \in EncodeHistoryFill(ctorOptions.fill) :
       /\ softmax_policy_temperature_' = Reciprocal(ctorOptions.temp)
       /\ IF fill = "assert-failed"
            THEN bpc' = "aborted" /\ UNCHANGED <<fill_empty_history_, attrs_>>
            ELSE /\ bpc' = "ready"
                 /\ fill_empty_history_' = fill
                 /\ attrs_' = [maximum_batch_size |-> MaxBatchSize]
  /\ UNCHANGED <<network_, backend_opts_, weights_path_, ctorOptions, lastUpdate>>
  /\ UNCHANGED exceptBackend

UpdateConfiguration(options) ==
  /\ bpc = "ready"
  /\ \E fill \in EncodeHistoryFill(options.fill) :
       ApplyConfiguration(options, fill)
  /\ UNCHANGED <<network_, attrs_, backend_opts_, weights_path_, ctorOptions>>
  /\ UNCHANGED exceptBackend

\* BackendAttributes GetAttributes() const { return attrs_; }
GetAttributes == attrs_

BackendNext ==
  \/ NetworkAsBackendCtor
  \/ \E options \in Options : UpdateConfiguration(options)


\* ================================================== ValueHeadSearch
\* What the network returns, in halves: q in -1, -1/2, 0, 1/2, 1 and d in
\* 0, 1/2.
QVals == {-2, -1, 0, 1, 2}
DVals == {0, 1}
GameResults == {"UNDECIDED", "DRAW", "WHITE_WON", "BLACK_WON"}
\* A legal move, seen through the position it leads to: what
\* history.ComputeGameResult() says there and what the network returns for it.
ChildKinds ==
  [result : {"UNDECIDED"}, q : QVals, d : DVals]
    \cup [result : GameResults \ {"UNDECIDED"}, q : {0}, d : {0}]

\* board.GenerateLegalMoves(): the i-th move in generation order.
legal_moves == [i \in 1..Len(children) |-> [from |-> 8 + i, to |-> 16 + i]]

nullopt == <<>>
\* The float that is not a number, kept apart from every value in halves.
NaN == 1000
\* operator< of float: false whenever an operand is NaN.
FloatLess(x, y) == x # NaN /\ y # NaN /\ x < y

\* A comparison that looks at negative_q alone.
Less_IgnoresMate(a, b) == FloatLess(a.negative_q, b.negative_q)
\* struct Score, operator<, lines 138-146.
Less(a, b) ==
  IF a.mate # nullopt /\ b.mate = nullopt THEN TRUE
  ELSE IF a.mate = nullopt /\ b.mate # nullopt THEN FALSE
  ELSE IF a.mate # nullopt /\ b.mate # nullopt THEN a.mate[1] < b.mate[1]
  ELSE FloatLess(a.negative_q, b.negative_q)

\* std::vector<Score> results(n): value-initialised elements.
ValueInitialized == [negative_q |-> 0, d |-> 0, mate |-> nullopt]

\* Children of one position, at most max of them.
ChildLists(max) == UNION {[1..n -> ChildKinds] : n \in 0..max}

\* GetBestMove up to the loop, lines 124-149, for one of `lists`.
ValueHeadStart(lists) ==
  /\ children \in lists
  /\ history = <<>>
  /\ results = [i \in 1..Len(children) |-> ValueInitialized]
  /\ batch = <<>>
  /\ vpc = "loop"
  /\ vi = 0
  /\ vcomputes = 0
  /\ best_idx = 0
  /\ infos = <<>>
  /\ best_move = [from |-> 0, to |-> 0]

ValueHeadInit == ValueHeadStart(ChildLists(MaxMoves))

\* history.Pop()
Pop_Nothing(h) == h
Pop(h) == SubSeq(h, 1, Len(h) - 1)

\* The element of results whose fields iteration i hands to AddInput.
ResultSlot_Zero(i) == 0
ResultSlot(i) == i

\* One iteration of the loop, lines 151-169: Append, the switch, Pop. An
\* input records the positions it was given and the destinations it named.
LoopIteration ==
  /\ vpc = "loop"
  /\ vi < Len(children)
  /\ LET c == children[vi + 1]
         appended == Append(history, legal_moves[vi + 1]) IN
       /\ history' = Pop(appended)
       /\ CASE c.result = "UNDECIDED" ->
              /\ batch' = Append(batch, [slot |-> ResultSlot(vi), q |-> TRUE,
                                         d |-> TRUE, m |-> FALSE, p |-> FALSE,
                                         pos |-> appended])
              /\ UNCHANGED results
         [] c.result = "DRAW" ->
              /\ results' = [results EXCEPT ![vi + 1] =
                   [negative_q |-> 0, d |-> 2, mate |-> nullopt]]
              /\ UNCHANGED batch
         [] OTHER ->
              /\ results' = [results EXCEPT ![vi + 1] =
                   [negative_q |-> -2, d |-> 0, mate |-> <<1>>]]
              /\ UNCHANGED batch
  /\ vi' = vi + 1
  /\ UNCHANGED <<children, vpc, vcomputes, best_idx, infos, best_move>>
  /\ UNCHANGED exceptValueHead

\* The child the positions of an input end in.
ChildOf(pos) ==
  CHOOSE j \in 1..Len(children) : legal_moves[j] = pos[Len(pos)]

\* computation->ComputeBlocking(), line 171: every input added receives, in
\* the destinations it named, the network's output for its positions; of two
\* inputs naming the same destination the later one is written last.
ValueHeadCompute ==
  /\ vpc = "loop"
  /\ vi = Len(children)
  /\ results' = [i \in 1..Len(children) |->
       LET ks == {k \in 1..Len(batch) : batch[k].slot = i - 1} IN
         IF ks # {}
           THEN LET k == CHOOSE x \in ks : \A y \in ks : y <= x
                    c == children[ChildOf(batch[k].pos)] IN
                  [results[i] EXCEPT !.negative_q = c.q, !.d = c.d]
           ELSE results[i]]
  /\ vcomputes' = vcomputes + 1
  /\ vpc' = "select"
  /\ UNCHANGED <<children, history, batch, vi, best_idx, infos, best_move>>
  /\ UNCHANGED exceptValueHead

\* A scan that also moves to an element equal to the smallest seen, and so
\* ends on the last minimum.
RECURSIVE MinElementScan_Last(_, _, _)
MinElementScan_Last(r, i, smallest) ==
  IF i > Len(r) THEN smallest
  ELSE MinElementScan_Last(r, i + 1,
         IF ~Less(r[smallest], r[i]) THEN i ELSE smallest)

MinElement_Last(r) == MinElementScan_Last(r, 2, 1) - 1

\* std::min_element: the iterator moves only to an element that is less than
\* the smallest seen, and so ends on the first minimum.
RECURSIVE MinElementScan(_, _, _)
MinElementScan(r, i, smallest) ==
  IF i > Len(r) THEN smallest
  ELSE MinElementScan(r, i + 1, IF Less(r[i], r[smallest]) THEN i ELSE smallest)

\* std::min_element(results.begin(), results.end()) - results.begin()
MinElement(r) == MinElementScan(r, 2, 1) - 1

\* static_cast<int>(-90 * std::tan(1.5637541897 * negative_q)), for
\* negative_q in halves.
Centipawns(negative_q) ==
  CASE negative_q = -2 -> 12780
    [] negative_q = -1 -> 89
    [] negative_q = 0 -> 0
    [] negative_q = 1 -> -89
    [] negative_q = 2 -> -12780

\* The ThinkingInfo built at lines 176-192 for Score r; q and d in halves, so
\* 500 * (1 - q - d) is 500 - 250 * q - 250 * d.
ThinkingInfoOf(r, nodes) ==
  [depth |-> 1, seldepth |-> 1, nodes |-> nodes, mate |-> r.mate,
   score |-> IF r.mate # nullopt THEN nullopt
             ELSE <<Centipawns(r.negative_q)>>,
   wdl |-> IF r.mate # nullopt THEN nullopt
           ELSE <<[w |-> 500 - 250 * r.negative_q - 250 * r.d,
                   d |-> 500 * r.d,
                   l |-> 500 + 250 * r.negative_q - 250 * r.d]>>]

\* What a read past the end of an empty vector can yield.
GarbageScores ==
  [negative_q : {-2, 2}, d : {0}, mate : {nullopt, <<1>>}]
GarbageMove == [from |-> 63, to |-> 63]

\* Lines 173-195: min_element, the info record, the move. With no legal move
\* min_element returns end(), index 0 of two empty vectors is read, and the
\* behaviour is undefined: the call crashes or goes on with whatever it read.
ValueHeadSelect ==
  /\ vpc = "select"
  /\ IF Len(children) = 0
       THEN \/ /\ vpc' = "crashed"
               /\ UNCHANGED <<best_idx, infos, best_move>>
            \/ \E g \in GarbageScores :
                 /\ vpc' = "done"
                 /\ best_idx' = 0
                 /\ infos' = <<ThinkingInfoOf(g, 0)>>
                 /\ best_move' = GarbageMove
       ELSE /\ vpc' = "done"
            /\ best_idx' = MinElement(results)
            /\ infos' = <<ThinkingInfoOf(results[best_idx' + 1], Len(children))>>
            /\ best_move' = legal_moves[best_idx' + 1]
  /\ UNCHANGED <<children, history, results, batch, vi, vcomputes>>
  /\ UNCHANGED exceptValueHead

ValueHeadNext ==
  \/ LoopIteration
  \/ ValueHeadCompute
  \/ ValueHeadSelect

\* ===================================================== Score::operator<
\* struct Score: negative_q any float (here -1, 0, 1 in halves, or NaN), d,
\* and an optional mate distance.
Scores == [negative_q : {-2, 0, 2, NaN}, d : {0, 2}, mate : {nullopt, <<1>>, <<2>>}]

ScoreInit ==
  /\ scores \in [1..3 -> Scores]
  /\ compared = <<>>

\* Every one of the three Scores is compared with every one.
CompareScores ==
  /\ compared = <<>>
  /\ compared' = [i \in 1..3 |-> [j \in 1..3 |-> Less(scores[i], scores[j])]]
  /\ UNCHANGED scores
  /\ UNCHANGED exceptScore

\* ================================================== PolicyHeadSearch
\* A policy probability, in units small enough to hold ties and zeros.
PVals == {0, 1, 2}
\* What the network returns for the current position: q and d in halves, and
\* a probability for each of its legal moves.
NetOutputs(max) ==
  [q : QVals, d : DVals, p : UNION {[1..n -> PVals] : n \in 0..max}]

\* positions.back().GetBoard().GenerateLegalMoves()
policy_legal_moves == [i \in 1..Len(net.p) |-> [from |-> 8 + i, to |-> 16 + i]]

\* GetBestMove before its first statement, for one of `outputs`.
PolicyHeadStart(outputs) ==
  /\ net \in outputs
  /\ evaluated = <<>>
  /\ res = <<>>
  /\ ppc = "evaluate"
  /\ best_move_idx = 0
  /\ policy_infos = <<>>
  /\ policy_best_move = [from |-> 0, to |-> 0]

PolicyHeadInit == PolicyHeadStart(NetOutputs(MaxMoves))

\* backend_->EvaluateBatch of the one EvalPosition, lines 94-97: one result
\* per position given, holding the network's q, d and policy for it.
EvaluateBatch ==
  /\ ppc = "evaluate"
  /\ evaluated' = <<[legal_moves |-> policy_legal_moves]>>
  /\ res' = <<[q |-> net.q, d |-> net.d, p |-> net.p]>>
  /\ ppc' = "select"
  /\ UNCHANGED <<net, best_move_idx, policy_infos, policy_best_move>>
  /\ UNCHANGED exceptPolicyHead

\* A scan that also moves to an element equal to the largest seen.
RECURSIVE MaxElementScan_Last(_, _, _)
MaxElementScan_Last(p, i, largest) ==
  IF i > Len(p) THEN largest
  ELSE MaxElementScan_Last(p, i + 1, IF ~(p[i] < p[largest]) THEN i ELSE largest)

MaxElement_Last(p) == MaxElementScan_Last(p, 2, 1) - 1

\* std::max_element: the iterator moves only to an element the largest seen
\* is less than, and so ends on the first maximum.
RECURSIVE MaxElementScan(_, _, _)
MaxElementScan(p, i, largest) ==
  IF i > Len(p) THEN largest
  ELSE MaxElementScan(p, i + 1, IF p[largest] < p[i] THEN i ELSE largest)

\* std::max_element(res[0].p.begin(), res[0].p.end()) - res[0].p.begin()
MaxElement(p) == MaxElementScan(p, 2, 1) - 1

\* The ThinkingInfo built at lines 101-113; q and d in halves. The score is
\* the double 90 * tan(1.5637541897 * q) converted to int.
PolicyThinkingInfo(r) ==
  [depth |-> 1, seldepth |-> 1, nodes |-> 1, mate |-> nullopt,
   score |-> <<0 - Centipawns(r.q)>>,
   wdl |-> <<[w |-> 500 + 250 * r.q - 250 * r.d,
              d |-> 500 * r.d,
              l |-> 500 - 250 * r.q - 250 * r.d]>>]

\* Lines 98-117: max_element, the info record, the move. With no legal move
\* legal_moves[0] reads past the end of an empty list and the behaviour is
\* undefined: the call crashes or returns whatever it read.
PolicyHeadSelect ==
  /\ ppc = "select"
  /\ best_move_idx' = MaxElement(res[1].p)
  /\ policy_infos' = <<PolicyThinkingInfo(res[1])>>
  /\ IF Len(policy_legal_moves) = 0
       THEN \/ ppc' = "crashed" /\ UNCHANGED policy_best_move
            \/ ppc' = "done" /\ policy_best_move' = GarbageMove
       ELSE /\ ppc' = "done"
            /\ policy_best_move' = policy_legal_moves[best_move_idx' + 1]
  /\ UNCHANGED <<net, evaluated, res>>
  /\ UNCHANGED exceptPolicyHead

PolicyHeadNext ==
  \/ EvaluateBatch
  \/ PolicyHeadSelect

\* ======================================================== SoftmaxPolicy
\* Raw policy scores of the network, even so that every product with a
\* temperature of 1/2, 1 or 2 is a whole number.
RawScores == {0, 2, 4, 6}
RawLists(max) == UNION {[1..n -> RawScores] : n \in 0..max}
Temperatures == {Reciprocal(t) : t \in SoftmaxTemps}

RECURSIVE Pow2(_)
Pow2(n) == IF n = 0 THEN 1 ELSE 2 * Pow2(n - 1)
One == Pow2(UnderflowAt)

\* a * b and a - b of two fractions.
Times(a, b) == Fraction(a.num * b.num, a.den * b.den)
Minus(a, b) == Fraction(a.num * b.den - b.num * a.den, a.den * b.den)

\* FastExp(x) for x <= 0 a whole number: a power of the base raised to x, in
\* units of 1 / 2^UnderflowAt, and zero once x is below -UnderflowAt.
FastExp(x) ==
  LET k == (0 - x.num) \div x.den IN
    IF k > UnderflowAt THEN Fraction(0, One)
    ELSE Fraction(Pow2(UnderflowAt - k), One)

\* SoftmaxPolicy before its first statement; dst has one element per legal
\* move of the entry.
SoftmaxStart(lists, temps) ==
  /\ raw \in lists
  /\ temperature \in temps
  /\ dst = [i \in 1..Len(raw) |-> Fraction(0, 1)]
  /\ max_p = nullopt
  /\ total = 0
  /\ smpc = "copy"

SoftmaxInit == SoftmaxStart(RawLists(MaxMoves), Temperatures)

\* std::max(max_p, v), with max_p starting at minus infinity (nullopt).
RECURSIVE AccumulateMax(_, _, _)
AccumulateMax(r, i, m) ==
  IF i > Len(r) THEN m
  ELSE AccumulateMax(r, i + 1, IF m = nullopt \/ m[1] < r[i] THEN <<r[i]>> ELSE m)

\* Lines 138-143: the raw scores are copied to dst and their maximum taken.
SoftmaxCopy ==
  /\ smpc = "copy"
  /\ dst' = [i \in 1..Len(raw) |-> Fraction(raw[i], 1)]
  /\ max_p' = AccumulateMax(raw, 1, nullopt)
  /\ smpc' = "exp"
  /\ UNCHANGED <<raw, temperature, total>>
  /\ UNCHANGED exceptSoftmax

RECURSIVE SumOfNums(_, _)
SumOfNums(v, i) == IF i > Len(v) THEN 0 ELSE v[i].num + SumOfNums(v, i + 1)

\* Lines 145-149: every value becomes FastExp((val - max_p) * temperature)
\* and the total is their sum.
SoftmaxExp ==
  /\ smpc = "exp"
  /\ dst' = [i \in 1..Len(dst) |->
       FastExp(Times(Minus(dst[i], Fraction(max_p[1], 1)), temperature))]
  /\ total' = SumOfNums(dst', 1)
  /\ smpc' = "scale"
  /\ UNCHANGED <<raw, temperature, max_p>>
  /\ UNCHANGED exceptSoftmax

\* Line 150: total > 0.0f ? 1.0f / total : 1.0f, total in units of 1 / One.
Scale_One(t) == Fraction(1, 1)
Scale(t) == IF t > 0 THEN Fraction(One, t) ELSE Fraction(1, 1)

\* Line 152: every value is multiplied by the scale.
SoftmaxScale ==
  /\ smpc = "scale"
  /\ dst' = [i \in 1..Len(dst) |-> Times(dst[i], Scale(total))]
  /\ smpc' = "done"
  /\ UNCHANGED <<raw, temperature, max_p, total>>
  /\ UNCHANGED exceptSoftmax

SoftmaxNext ==
  \/ SoftmaxCopy
  \/ SoftmaxExp
  \/ SoftmaxScale

\* ============================================ NetworkAsBackendFactory
SubOptions == {"threads", "gpu"}
\* What Create is given: the sub-options its backend options string declares
\* (or a string that does not parse), whether the weights file loads, whether
\* the network factory function succeeds and which options it reads, and the
\* history-fill mode.
CreateInputs ==
  [malformed : BOOLEAN, declared : SUBSET SubOptions, loads : BOOLEAN,
   factory_ok : BOOLEAN, reads : SUBSET SubOptions, fill : {"no", "sometimes"}]

FactoryStart(inputs) ==
  /\ create_input \in inputs
  /\ network_options = [declared |-> {}, read |-> {}]
  /\ weights = "none"
  /\ network = "none"
  /\ create_calls = <<>>
  /\ create_result = "none"
  /\ fpc = "parse"

FactoryInit == FactoryStart(CreateInputs)

\* Lines 181-184: network_options.AddSubdictFromString(backend_options).
CreateParse ==
  /\ fpc = "parse"
  /\ create_calls' = Append(create_calls, "AddSubdictFromString")
  /\ IF create_input.malformed
       THEN /\ create_result' = "Exception"
            /\ fpc' = "thrown"
            /\ UNCHANGED network_options
       ELSE /\ network_options' = [declared |-> create_input.declared, read |-> {}]
            /\ fpc' = "load"
            /\ UNCHANGED create_result
  /\ UNCHANGED <<create_input, weights, network>>
  /\ UNCHANGED exceptFactory

\* Lines 186-188: LoadWeights(net_path).
CreateLoadWeights ==
  /\ fpc = "load"
  /\ create_calls' = Append(create_calls, "LoadWeights")
  /\ IF create_input.loads
       THEN /\ weights' = "loaded"
            /\ fpc' = "factory"
            /\ UNCHANGED create_result
       ELSE /\ create_result' = "WeightsLoadError"
            /\ fpc' = "thrown"
            /\ UNCHANGED weights
  /\ UNCHANGED <<create_input, network_options, network>>
  /\ UNCHANGED exceptFactory

\* Lines 189-190: factory_(std::move(weights), network_options).
CreateNetwork ==
  /\ fpc = "factory"
  /\ create_calls' = Append(create_calls, "factory_")
  /\ weights' = "moved"
  /\ IF create_input.factory_ok
       THEN /\ network' = "constructed"
            /\ network_options' = [network_options EXCEPT !.read = create_input.reads]
            /\ fpc' = "check"
            /\ UNCHANGED create_result
       ELSE /\ create_result' = "Exception"
            /\ fpc' = "thrown"
            /\ UNCHANGED <<network, network_options>>
  /\ UNCHANGED create_input
  /\ UNCHANGED exceptFactory

\* OptionsDict::CheckAllOptionsRead: every declared option was read.
AllOptionsRead_Always(o) == TRUE
AllOptionsRead(o) == o.declared \subseteq o.read

\* Line 191: network_options.CheckAllOptionsRead(name_); when it throws the
\* network just built is destroyed with the stack frame.
CreateCheckAllOptionsRead ==
  /\ fpc = "check"
  /\ create_calls' = Append(create_calls, "CheckAllOptionsRead")
  /\ IF AllOptionsRead(network_options)
       THEN /\ fpc' = "wrap"
            /\ UNCHANGED <<create_result, network>>
       ELSE /\ create_result' = "UnrecognizedOptionError"
            /\ network' = "destroyed"
            /\ fpc' = "thrown"
  /\ UNCHANGED <<create_input, network_options, weights>>
  /\ UNCHANGED exceptFactory

\* Line 192: std::make_unique<NetworkAsBackend>(std::move(network), options);
\* the constructor runs EncodeHistoryFill on the history-fill mode.
CreateWrap ==
  /\ fpc = "wrap"
  /\ create_calls' = Append(create_calls, "NetworkAsBackend")
  /\ \E fill \in EncodeHistoryFill(create_input.fill) :
       IF fill = "assert-failed"
         THEN /\ create_result' = "aborted"
              /\ fpc' = "aborted"
              /\ UNCHANGED network
         ELSE /\ create_result' = "Backend"
              /\ network' = "owned by the Backend"
              /\ fpc' = "returned"
  /\ UNCHANGED <<create_input, network_options, weights>>
  /\ UNCHANGED exceptFactory

FactoryNext ==
  \/ CreateParse
  \/ CreateLoadWeights
  \/ CreateNetwork
  \/ CreateCheckAllOptionsRead
  \/ CreateWrap

\* ============================================================ specifications
\* The objects a specification is not about stay as constructed.
BackendIdle == BackendStart({DefaultOptions}, {"net1"})
ValueHeadIdle == ValueHeadStart({<<>>})
PolicyHeadIdle == PolicyHeadStart({[q |-> 0, d |-> 0, p |-> <<>>]})
ScoreIdle == scores = [i \in 1..3 |-> ValueInitialized] /\ compared = <<>>
SoftmaxIdle == SoftmaxStart({<<>>}, {Fraction(1, 1)})
FactoryIdle ==
  FactoryStart({[malformed |-> FALSE, declared |-> {}, loads |-> TRUE,
                 factory_ok |-> TRUE, reads |-> {}, fill |-> "no"]})

Init ==
  CompInit /\ SearchInit /\ BackendIdle /\ ValueHeadIdle
    /\ PolicyHeadIdle /\ ScoreIdle /\ SoftmaxIdle /\ FactoryIdle

\* One Computation, its AddInput callers and its ComputeBlocking caller.
Spec == Init /\ [][Next]_vars

\* One search object and the threads that call it.
SearchSpec == Init /\ [][SearchNext]_vars

\* The polling thread is scheduled again and again.
FairSearchSpec == SearchSpec /\ WF_vars(WaitSearchPoll)

\* One Backend, constructed from any options and reconfigured at will.
BackendSpecInit ==
  CompInit /\ SearchInit /\ BackendInit /\ ValueHeadIdle
    /\ PolicyHeadIdle /\ ScoreIdle /\ SoftmaxIdle /\ FactoryIdle
BackendSpec == BackendSpecInit /\ [][BackendNext]_vars

\* One value-head search of a position with up to MaxMoves legal moves.
ValueHeadSpecInit ==
  CompInit /\ SearchInit /\ BackendIdle /\ ValueHeadInit
    /\ PolicyHeadIdle /\ ScoreIdle /\ SoftmaxIdle /\ FactoryIdle
ValueHeadSpec == ValueHeadSpecInit /\ [][ValueHeadNext]_vars

\* One policy-head search of a position with up to MaxMoves legal moves.
PolicyHeadSpecInit ==
  CompInit /\ SearchInit /\ BackendIdle /\ ValueHeadIdle
    /\ PolicyHeadInit /\ ScoreIdle /\ SoftmaxIdle /\ FactoryIdle
PolicyHeadSpec == PolicyHeadSpecInit /\ [][PolicyHeadNext]_vars

\* Score::operator< applied to every triple of Scores.
ScoreSpecInit ==
  CompInit /\ SearchInit /\ BackendIdle /\ ValueHeadIdle
    /\ PolicyHeadIdle /\ ScoreInit /\ SoftmaxIdle /\ FactoryIdle
ScoreSpec == ScoreSpecInit /\ [][CompareScores]_vars

\* One SoftmaxPolicy call for an entry with up to MaxMoves legal moves.
SoftmaxSpecInit ==
  CompInit /\ SearchInit /\ BackendIdle /\ ValueHeadIdle
    /\ PolicyHeadIdle /\ ScoreIdle /\ SoftmaxInit /\ FactoryIdle
SoftmaxSpec == SoftmaxSpecInit /\ [][SoftmaxNext]_vars

\* One Create call of the Backend factory.
FactorySpecInit ==
  CompInit /\ SearchInit /\ BackendIdle /\ ValueHeadIdle
    /\ PolicyHeadIdle /\ ScoreIdle /\ SoftmaxIdle /\ FactoryInit
FactorySpec == FactorySpecInit /\ [][FactoryNext]_vars

\* One search object of either class and the threads that start, stop and
\* abort its searches.
StartStopSpecInit ==
  CompInit /\ SearchStart(Strategies) /\ BackendIdle /\ ValueHeadIdle
    /\ PolicyHeadIdle /\ ScoreIdle /\ SoftmaxIdle /\ FactoryIdle
StartStopSpec == StartStopSpecInit /\ [][StartStopNext]_vars

\* ----------------------------------------------- claims on NetworkAsBackend
\* The fill policy a recognised history-fill mode names.
ConfiguredMode(mode) ==
  CASE mode = "fen_only" -> "FEN_ONLY"
    [] mode = "always" -> "ALWAYS"
    [] mode = "no" -> "NO"
RecognisedModes == {"fen_only", "always", "no"}
\* x * y = 1 for two fractions.
IsReciprocal(x, y) == x.num * y.num = x.den * y.den

\* C5: an UpdateConfiguration call that returned has returned NEED_RESTART
\* exactly when its backend options string or its weights path differs from
\* the one given to the constructor; when it returned UPDATE_OK the softmax
\* temperature is the reciprocal of the configured value and the fill policy
\* is the configured mode; and the Backend holds the network it held before
\* the call.
C5_TwoTierUpdate ==
  (bpc = "ready" /\ lastUpdate.result # "none") =>
    LET o == lastUpdate.options IN
      /\ lastUpdate.result \in {"NEED_RESTART", "UPDATE_OK"}
      /\ (lastUpdate.result = "NEED_RESTART") <=>
           (\/ o.backend_opts # ctorOptions.backend_opts
            \/ o.weights # ctorOptions.weights)
      /\ (lastUpdate.result = "UPDATE_OK") =>
           /\ IsReciprocal(softmax_policy_temperature_, o.temp)
           /\ (o.fill \in RecognisedModes =>
                 fill_empty_history_ = ConfiguredMode(o.fill))
      /\ network_ = lastUpdate.network_before

\* An in-place update that changed both the temperature and the fill policy.
C5_Witness ==
  /\ bpc = "ready"
  /\ lastUpdate.result = "UPDATE_OK"
  /\ lastUpdate.options.temp = Fraction(1, 2)
  /\ ctorOptions.temp = Fraction(1, 1)
  /\ softmax_policy_temperature_ = Fraction(2, 1)
  /\ lastUpdate.options.fill = "always"
  /\ ctorOptions.fill = "no"
  /\ fill_empty_history_ = "ALWAYS"

\* ------------------------------------------------ claims on ValueHeadSearch
\* The Score the loop and the compute leave for a child.
ScoreOf(c) ==
  CASE c.result = "UNDECIDED" -> [negative_q |-> c.q, d |-> c.d, mate |-> nullopt]
    [] c.result = "DRAW" -> [negative_q |-> 0, d |-> 2, mate |-> nullopt]
    [] OTHER -> [negative_q |-> -2, d |-> 0, mate |-> <<1>>]
Decisive(c) == c.result \in {"WHITE_WON", "BLACK_WON"}

\* C10: a value-head search of a position with a legal move has run one
\* blocking compute and returns the first legal move, in generation order,
\* whose Score no other move's Score is less than; when some move leads to a
\* decisive terminal position the move returned is such a move and the info
\* record carries mate 1, no score and no WDL.
C10_SelectsFirstMinimum ==
  (vpc = "done" /\ Len(children) >= 1) =>
    LET n == Len(children)
        b == best_idx + 1 IN
      /\ vcomputes = 1
      /\ b \in 1..n
      /\ best_move = legal_moves[b]
      /\ \A j \in 1..n : ~Less(ScoreOf(children[j]), ScoreOf(children[b]))
      /\ \A j \in 1..(b - 1) : Less(ScoreOf(children[b]), ScoreOf(children[j]))
      /\ Len(infos) = 1
      /\ (\E j \in 1..n : Decisive(children[j])) =>
           /\ Decisive(children[b])
           /\ infos[1].mate = <<1>>
           /\ infos[1].score = nullopt
           /\ infos[1].wdl = nullopt

\* Three moves: the second and third lead to a decisive terminal position,
\* the first to a position the network values at its best for the mover.
C10_Witness ==
  /\ vpc = "done"
  /\ Len(children) = 3
  /\ children[1].result = "UNDECIDED" /\ children[1].q = -2
  /\ Decisive(children[2])
  /\ Decisive(children[3])
  /\ best_idx = 1
  /\ infos[1].mate = <<1>>

\* C11: of the legal moves the loop has handled, a child that is a draw has
\* the draw score and a decisive child the one-ply mate score, neither with
\* an input; every undecided child has exactly one input, for the positions
\* after its move, naming only the value and draw-probability fields of its
\* own Score. So there are as many inputs as undecided children, the history
\* is what it was before the loop, and once the loop is left ComputeBlocking
\* has been called exactly once.
C11_EnumeratesEveryMove ==
  LET InputsOf(i) == {k \in 1..Len(batch) : batch[k].slot = i - 1} IN
    /\ \A i \in 1..vi :
         /\ children[i].result = "DRAW" =>
              /\ results[i] = [negative_q |-> 0, d |-> 2, mate |-> nullopt]
              /\ InputsOf(i) = {}
         /\ Decisive(children[i]) =>
              /\ results[i].mate = <<1>>
              /\ InputsOf(i) = {}
         /\ children[i].result = "UNDECIDED" =>
              /\ Cardinality(InputsOf(i)) = 1
              /\ \A k \in InputsOf(i) :
                   /\ batch[k].q /\ batch[k].d /\ ~batch[k].m /\ ~batch[k].p
                   /\ batch[k].pos = <<legal_moves[i]>>
    /\ Len(batch) =
         Cardinality({i \in 1..vi : children[i].result = "UNDECIDED"})
    /\ history = <<>>
    /\ vcomputes = (IF vpc = "loop" THEN 0 ELSE 1)
    /\ vpc # "loop" => vi = Len(children)

\* A draw, a decisive child and an undecided child were enumerated and the
\* one compute has run.
C11_Witness ==
  /\ vpc = "select"
  /\ Len(children) = 3
  /\ children[1].result = "DRAW"
  /\ children[2].result = "UNDECIDED"
  /\ Decisive(children[3])
  /\ Len(batch) = 1
  /\ vcomputes = 1

\* ----------------------------------------------- claims on PolicyHeadSearch
\* C12: a policy-head search of a position with a legal move has evaluated
\* exactly one entry, the current position with its legal moves, and returns
\* the legal move at the first index holding the maximum policy probability;
\* with a uniform policy that is the first legal move.
C12_SelectsFirstMaximum ==
  (ppc = "done" /\ Len(net.p) >= 1) =>
    LET n == Len(net.p)
        b == best_move_idx + 1 IN
      /\ Len(evaluated) = 1
      /\ evaluated[1].legal_moves = policy_legal_moves
      /\ b \in 1..n
      /\ policy_best_move = policy_legal_moves[b]
      /\ \A j \in 1..n : net.p[j] <= net.p[b]
      /\ \A j \in 1..(b - 1) : net.p[j] < net.p[b]
      /\ (\A j \in 1..n : net.p[j] = net.p[1]) => b = 1

\* Three moves, the second and the third sharing the maximum.
C12_Witness ==
  /\ ppc = "done"
  /\ net.p = <<1, 2, 2>>
  /\ best_move_idx = 1
  /\ policy_best_move = policy_legal_moves[2]

\* ------------------------------------------------ claims on Score::operator<
Incomparable(i, j) == ~compared[i][j] /\ ~compared[j][i]
IsMate(i) == scores[i].mate # nullopt
IsNaN(i) == scores[i].negative_q = NaN
\* Irreflexive, asymmetric and transitive.
StrictPartialOrder ==
  /\ \A i \in 1..3 : ~compared[i][i]
  /\ \A i, j \in 1..3 : compared[i][j] => ~compared[j][i]
  /\ \A i, j, k \in 1..3 : (compared[i][j] /\ compared[j][k]) => compared[i][k]
\* Mate before non-mate, the shorter mate first, then the lower negative_q,
\* whatever the draw probabilities.
OrderedByMateThenValue ==
  \A i, j \in 1..3 :
    /\ (IsMate(i) /\ ~IsMate(j)) => compared[i][j]
    /\ (IsMate(i) /\ IsMate(j)) =>
         (compared[i][j] <=> scores[i].mate[1] < scores[j].mate[1])
    /\ (~IsMate(i) /\ ~IsMate(j) /\ ~IsNaN(i) /\ ~IsNaN(j)) =>
         (compared[i][j] <=> scores[i].negative_q < scores[j].negative_q)

\* C13 as stated: over all Scores the comparison is irreflexive, asymmetric
\* and transitive, incomparability is transitive, and the order is by mate,
\* then mate distance, then negative_q.
C13_TotalOrderUpToTies ==
  compared # <<>> =>
    /\ StrictPartialOrder
    /\ \A i, j, k \in 1..3 :
         (Incomparable(i, j) /\ Incomparable(j, k)) => Incomparable(i, k)
    /\ OrderedByMateThenValue

\* C13 amended: over all Scores the comparison is irreflexive, asymmetric and
\* transitive and orders by mate, then mate distance, then negative_q;
\* incomparability is transitive among Scores of which no non-mate one has a
\* NaN negative_q; a non-mate Score with a NaN negative_q is incomparable
\* with every non-mate Score.
C13_TotalOrderUpToTiesWithoutNaN ==
  compared # <<>> =>
    /\ StrictPartialOrder
    /\ (\A i \in 1..3 : IsMate(i) \/ ~IsNaN(i)) =>
         \A i, j, k \in 1..3 :
           (Incomparable(i, j) /\ Incomparable(j, k)) => Incomparable(i, k)
    /\ OrderedByMateThenValue
    /\ \A i, j \in 1..3 :
         (~IsMate(i) /\ IsNaN(i) /\ ~IsMate(j)) => Incomparable(i, j)

\* A mate in one, a mate in two and a non-mate Score whose negative_q is the
\* lowest of the three were compared.
C13_Witness ==
  /\ compared # <<>>
  /\ scores[1].mate = <<2>> /\ scores[2].mate = <<1>> /\ scores[3].mate = nullopt
  /\ scores[3].negative_q = -2 /\ scores[1].negative_q = 2
  /\ compared[2][1] /\ compared[1][3] /\ compared[2][3]

\* -------------------------------------------------- claims on SoftmaxPolicy
\* The largest raw score of the entry.
MaxRaw == CHOOSE m \in {raw[i] : i \in 1..Len(raw)} : \A i \in 1..Len(raw) : raw[i] <= m
\* exp((raw - max) * temperature) for move i, in units of 1 / One.
ExpUnits(i) ==
  LET k == ((MaxRaw - raw[i]) * temperature.num) \div temperature.den IN
    IF k > UnderflowAt THEN 0 ELSE Pow2(UnderflowAt - k)
RECURSIVE SumExpUnits(_)
SumExpUnits(i) == IF i > Len(raw) THEN 0 ELSE ExpUnits(i) + SumExpUnits(i + 1)

\* C14: when SoftmaxPolicy is done the slot holds one value per legal move,
\* none negative; when the sum of the exponentials is positive each value is
\* its exponential divided by the sum and the values sum to 1; when the sum
\* is not positive the values are the exponentials themselves; and the call
\* always ends.
C14_NormalizedPolicy ==
  /\ smpc \in {"copy", "exp", "scale", "done"}
  /\ smpc = "done" =>
       /\ Len(dst) = Len(raw)
       /\ \A i \in 1..Len(dst) : dst[i].num >= 0 /\ dst[i].den > 0
       /\ total = SumExpUnits(1)
       /\ total > 0 =>
            /\ \A i \in 1..Len(dst) :
                 dst[i].num * total = ExpUnits(i) * dst[i].den
            /\ \A i \in 1..Len(dst) : SumOfNums(dst, 1) = dst[i].den
       /\ total <= 0 =>
            \A i \in 1..Len(dst) : dst[i].num * One = ExpUnits(i) * dst[i].den

\* Three moves with different raw scores, the lowest so far below the
\* maximum that its exponential is zero, normalised at temperature 2.
C14_Witness ==
  /\ smpc = "done"
  /\ raw = <<6, 0, 4>>
  /\ temperature = Fraction(2, 1)
  /\ total > 0
  /\ dst[2].num = 0
  /\ dst[1].num > dst[3].num /\ dst[3].num > 0

\* ------------------------------------- more claims on NetworkAsBackend
\* C15: a history-fill mode that is none of "fen_only", "always" and "no" is
\* fatal: no Backend is constructed from it, no UpdateConfiguration call
\* given it returns, and it is never stored as one of the three policies.
C15_UnrecognisedFillIsFatal ==
  /\ bpc = "ready" => ctorOptions.fill \in RecognisedModes
  /\ lastUpdate.result # "none" => lastUpdate.options.fill \in RecognisedModes

\* ---------------------------------------- claims on NetworkAsBackendFactory
Called(name) == \E k \in 1..Len(create_calls) : create_calls[k] = name

BestMoveEmitted(s) == reports'[s] # reports[s]
\* Once StartSearch has computed its move, its search has exactly one
\* thinking-info record, and no search ever has more.
OneInfoPerSearch ==
  /\ \A s \in 0..MaxSearches : thinking'[s] <= 1
  /\ \A s \in 1..MaxSearches :
       (s < epoch' \/ (s = epoch' /\ spc' \in {"computed", "respond", "idle"}))
         => thinking'[s] = 1
\* The record emitted in this step has depth 1, seldepth 1 and the nodes of
\* the strategy.
InfoContents ==
  thinking' # thinking =>
    /\ lastInfo'.depth = 1 /\ lastInfo'.seldepth = 1
    /\ strategy = "policyhead" => lastInfo'.nodes = 1
    /\ strategy = "valuehead" => lastInfo'.nodes = LegalMoveCount(game_state_)

UpdateReturned == lastUpdate' # lastUpdate
\* The options of that call differ from the ones given to the constructor in
\* the backend options string or in the weights path.
DiffersFromConstruction(o) ==
  \/ o.backend_opts # ctorOptions.backend_opts
  \/ o.weights # ctorOptions.weights

\* C20: an UpdateConfiguration call whose backend options string or weights
\* path differs from the construction value returns NEED_RESTART and leaves
\* the softmax temperature, the fill policy, the attributes, the network,
\* backend_opts_ and weights_path_ as they were, whatever temperature and
\* fill mode its options carry; backend_opts_ and weights_path_ stay the
\* construction values in every step, and a call with the construction values
\* returns UPDATE_OK, also after a call that returned NEED_RESTART.
C20_RestartChangesNothing ==
  [][/\ backend_opts_' = ctorOptions.backend_opts
     /\ weights_path_' = ctorOptions.weights
     /\ ctorOptions' = ctorOptions
     /\ UpdateReturned =>
          IF DiffersFromConstruction(lastUpdate'.options)
            THEN /\ lastUpdate'.result = "NEED_RESTART"
                 /\ softmax_policy_temperature_' = softmax_policy_temperature_
                 /\ fill_empty_history_' = fill_empty_history_
                 /\ attrs_' = attrs_
                 /\ network_' = network_
                 /\ backend_opts_' = backend_opts_
                 /\ weights_path_' = weights_path_
            ELSE lastUpdate'.result = "UPDATE_OK"]_vars

\* After an update in place, a call returned NEED_RESTART whose options
\* carried another temperature and another fill mode than the ones in force.
C20_Witness ==
  /\ bpc = "ready"
  /\ lastUpdate.previous = "UPDATE_OK"
  /\ lastUpdate.result = "NEED_RESTART"
  /\ ~IsReciprocal(softmax_policy_temperature_, lastUpdate.options.temp)
  /\ lastUpdate.options.fill \in RecognisedModes
  /\ fill_empty_history_ # ConfiguredMode(lastUpdate.options.fill)

\* ------------------------------------------ the move OutputBestMove receives
\* The move GetBestMove returned in the StartSearch of the search in
\* progress, for the position SetPosition stored last; no move while no
\* StartSearch has stored one for the search in progress.
MoveOfLatestSearch ==
  IF epoch >= 1 /\ spc # "armed" THEN {GetBestMove(game_state_)} ELSE {}

\* C21: in every step that calls OutputBestMove, the move passed to it is,
\* before mirroring, the move GetBestMove computed in the most recent
\* StartSearch for the position of the most recent SetPosition.
C21_ReportsMoveOfLatestSearch ==
  [][(\E s \in 0..MaxSearches : BestMoveEmitted(s)) =>
       lastOut'.computed \in MoveOfLatestSearch]_vars

\* ------------------------------------------- the move GetBestMove returns
\* The elements of a list of moves.
MovesOf(moves) == {moves[i] : i \in 1..Len(moves)}

\* C22: a GetBestMove call of either strategy that has got past its
\* selection has not read outside the legal-move list or the results, has
\* selected an index smaller than the number of legal moves, and returns a
\* move of the legal-move list, whatever the number of legal moves.
C22_ReturnsLegalMove ==
  /\ vpc \in {"done", "crashed"} =>
       /\ vpc = "done"
       /\ best_idx < Len(legal_moves)
       /\ best_move \in MovesOf(legal_moves)
  /\ ppc \in {"done", "crashed"} =>
       /\ ppc = "done"
       /\ best_move_idx < Len(policy_legal_moves)
       /\ policy_best_move \in MovesOf(policy_legal_moves)

====
